---------------------------- MODULE Spec2Model ----------------------------
(***************************************************************************)
(* Model of portfolio_tool.py: the price router, the fundamentals wrapper, *)
(* the metrics columns, the scoring / decision / insight engine and the    *)
(* driver load_and_process_portfolio.                                      *)
(*                                                                         *)
(* A DataFrame is a function from column names to sequences (one entry per *)
(* row).  A Python float is a record [kind, num, den]: kind "num" is the   *)
(* exact rational num/den (den > 0, lowest terms), "nan" is NaN, "inf" is  *)
(* +inf (num = 1) or -inf (num = -1), and "none" is Python's None.         *)
(* Arithmetic is exact; binary rounding of float64 is not modelled.        *)
(***************************************************************************)
EXTENDS Integers, Sequences, FiniteSets, TLC

VARIABLES
    df,            \* the local `portfolio` DataFrame: column name -> column
    pc,            \* position inside load_and_process_portfolio
    acc,           \* results collected so far by the running row-wise apply
    total_value,   \* the local total_value (None until line 209)
    fundamentals,  \* the Series of dicts built at line 216
    history,       \* yfinance quotes seen in this run: symbol -> close or Empty
    info,          \* yfinance .info seen in this run: ticker -> dict
    raised,        \* rows whose fetch_fundamentals call raised
    called,        \* rows for which fetch_fundamentals was called
    err,           \* the ValueError that ended the run (None if none)
    ret            \* the DataFrame returned to the caller (None if none)

vars == <<df, pc, acc, total_value, fundamentals, history, info, raised, called, err, ret>>

\* Largest number of rows of portfolio.csv explored.
MaxHoldings == 2

\* decision_label is evaluated on every score in -MaxScore..MaxScore.
MaxScore == 6

-----------------------------------------------------------------------------
(* Python / numpy floats *)

Abs(n) == IF n < 0 THEN -n ELSE n

Sign(n) == IF n > 0 THEN 1 ELSE IF n < 0 THEN -1 ELSE 0

RECURSIVE GCD(_, _)
GCD(a, b) == IF b = 0 THEN a ELSE GCD(b, a % b)

None == [kind |-> "none", num |-> 0, den |-> 1]

NaN == [kind |-> "nan", num |-> 0, den |-> 1]

Inf(s) == [kind |-> "inf", num |-> s, den |-> 1]

\* the float n/d, d > 0
Q(n, d) == LET g == GCD(Abs(n), d) IN [kind |-> "num", num |-> n \div g, den |-> d \div g]

F(n) == Q(n, 1)

IsNum(x) == x.kind = "num"

\* float * float
Mul(a, b) ==
    IF a.kind = "nan" \/ b.kind = "nan" THEN NaN
    ELSE IF a.kind = "inf" \/ b.kind = "inf"
         THEN IF Sign(a.num) * Sign(b.num) = 0 THEN NaN ELSE Inf(Sign(a.num) * Sign(b.num))
         ELSE LET g == GCD(Abs(a.num), b.den)
                  h == GCD(Abs(b.num), a.den)
              IN  Q((a.num \div g) * (b.num \div h), (a.den \div h) * (b.den \div g))

\* float + float, on finite operands and NaN
Add(a, b) ==
    IF a.kind = "nan" \/ b.kind = "nan" THEN NaN
    ELSE LET g == GCD(a.den, b.den)
         IN  Q(a.num * (b.den \div g) + b.num * (a.den \div g), (a.den \div g) * b.den)

\* float - float, on finite operands and NaN
Sub(a, b) == Add(a, Mul(F(-1), b))

\* numpy float division of finite operands: x/0 is +-inf, 0/0 is NaN, no exception
Div(a, b) ==
    IF a.kind = "nan" \/ b.kind = "nan" THEN NaN
    ELSE IF b.num = 0
         THEN IF a.num = 0 THEN NaN ELSE Inf(Sign(a.num))
         ELSE Mul(a, Q(Sign(b.num) * b.den, Abs(b.num)))

\* a > b on floats: every comparison with NaN is False
Gt(a, b) ==
    /\ a.kind # "nan"
    /\ b.kind # "nan"
    /\ IF a.kind = "inf" /\ b.kind = "inf" THEN a.num > b.num
       ELSE IF a.kind = "inf" THEN a.num = 1
       ELSE IF b.kind = "inf" THEN b.num = -1
       ELSE a.num * b.den > b.num * a.den

Lt(a, b) == Gt(b, a)

\* bool(x) of a float or None: None and 0 are falsy, NaN and +-inf are truthy
Truthy(x) == x.kind # "none" /\ ~(x.kind = "num" /\ x.num = 0)

\* pd.isna(x)
IsNa(x) == x.kind \in {"none", "nan"}

\* n/d rounded to the nearest integer, ties to even (d > 0)
RoundHalfEven(n, d) ==
    LET q == n \div d
        r == n % d
    IN  IF 2 * r < d THEN q
        ELSE IF 2 * r > d THEN q + 1
        ELSE IF q % 2 = 0 THEN q ELSE q + 1

\* Series.round(k) on one value, scale = 10^k
Round(x, scale) ==
    IF IsNum(x)
    THEN Q((x.num \div x.den) * scale + RoundHalfEven((x.num % x.den) * scale, x.den), scale)
    ELSE x

RECURSIVE SumFrom(_, _)
SumFrom(col, k) == IF k > Len(col) THEN F(0) ELSE Add(col[k], SumFrom(col, k + 1))

\* Series.sum(skipna=True)
SumSkipNa(col) == SumFrom(SelectSeq(col, LAMBDA x : ~IsNa(x)), 1)

-----------------------------------------------------------------------------
(* strings *)

\* str.lower() on the asset_type strings of the model
Lower(s) ==
    CASE s = "Stock" -> "stock"
      [] s = "BOND" -> "bond"
      [] OTHER -> s

\* str.upper() on the ticker strings of the model
Upper(s) ==
    CASE s = "bankofny" -> "BANKOFNY"
      [] OTHER -> s

RECURSIVE JoinFrom(_, _, _)
JoinFrom(sep, parts, k) ==
    IF k > Len(parts) THEN ""
    ELSE IF k = Len(parts) THEN parts[k]
    ELSE parts[k] \o sep \o JoinFrom(sep, parts, k + 1)

\* sep.join(parts)
Join(sep, parts) == JoinFrom(sep, parts, 1)

-----------------------------------------------------------------------------
(* DataFrame helpers *)

NRows(d) == Len(d["ticker"])

\* the row Series handed to a function by DataFrame.apply(axis=1)
Row(d, k) == [c \in DOMAIN d |-> d[c][k]]

\* row.get(key): None when the column does not exist
RowGet(row, key) == IF key \in DOMAIN row THEN row[key] ELSE None

\* portfolio[name] = col
SetCol(d, name, col) == [c \in (DOMAIN d) \cup {name} |-> IF c = name THEN col ELSE d[c]]

-----------------------------------------------------------------------------
(* 1. price fetch functions *)

\* what Ticker(symbol).history(period="1d") can hold: no rows, or a last Close
Empty == [kind |-> "empty", num |-> 0, den |-> 1]

Closes == {F(20)}

Returned(v) == [ok |-> TRUE, val |-> v]

Raised(e) == [ok |-> FALSE, val |-> e]

\* fetch_stock_price without the check of hist.empty: the price of an empty
\* history comes back as NaN
FetchStockPriceNoEmptyCheck(ticker, hist) ==
    IF hist = Empty THEN Returned(NaN) ELSE Returned(hist)

\* fetch_stock_price(ticker), hist = the history yfinance returned
FetchStockPrice(ticker, hist) ==
    IF hist = Empty
    THEN Raised("No price data returned for STOCK " \o ticker)
    ELSE Returned(hist)

\* fetch_crypto_price(symbol), hist = the history returned for symbol-USD
FetchCryptoPrice(symbol, hist) ==
    IF hist = Empty
    THEN Raised("No price data returned for CRYPTO " \o symbol)
    ELSE Returned(hist)

\* fetch_cd_price(row)
FetchCdPrice(row) ==
    IF Upper(row["ticker"]) = "BANKOFNY"
    THEN Mul(Q(99632, 1000), Q(1, 100))
    ELSE row["cost_basis"]

\* the yfinance symbol fetch_price asks a quote for ("" when it asks for none)
QuoteSymbol(row) ==
    CASE Lower(row["asset_type"]) = "stock" -> row["ticker"]
      [] Lower(row["asset_type"]) = "crypto" -> row["ticker"] \o "-USD"
      [] OTHER -> ""

\* fetch_price(row), hist = the history of QuoteSymbol(row)
FetchPrice(row, hist) ==
    LET atype == Lower(row["asset_type"])
        t == row["ticker"]
    IN  CASE atype = "stock" -> FetchStockPrice(t, hist)
          [] atype = "crypto" -> FetchCryptoPrice(t, hist)
          [] atype \in {"cd", "bond"} -> Returned(FetchCdPrice(row))
          [] atype = "cash" -> Returned(F(1))
          [] OTHER -> Raised("Unknown asset type: " \o atype)

-----------------------------------------------------------------------------
(* 3. / 4. fundamentals *)

FundCols ==
    <<"pe", "forward_pe", "ps", "profit_margin", "revenue_growth",
      "eps_growth", "beta", "analyst_score", "target_price">>

FundKeys == {FundCols[k] : k \in 1..Len(FundCols)}

\* dict.get(key)
Get(dict, key) == IF key \in DOMAIN dict THEN dict[key] ELSE None

\* fetch_fundamentals(ticker), tinfo = Ticker(ticker).info
FetchFundamentals(tinfo) ==
    [pe |-> Get(tinfo, "trailingPE"),
     forward_pe |-> Get(tinfo, "forwardPE"),
     ps |-> Get(tinfo, "priceToSalesTrailing12Months"),
     profit_margin |-> Get(tinfo, "profitMargins"),
     revenue_growth |-> Get(tinfo, "revenueGrowth"),
     eps_growth |-> Get(tinfo, "earningsQuarterlyGrowth"),
     beta |-> Get(tinfo, "beta"),
     analyst_score |-> Get(tinfo, "recommendationMean"),
     target_price |-> Get(tinfo, "targetMeanPrice")]

AllNone == [c \in FundKeys |-> None]

\* safe_fundamentals consults yfinance only for a stock row
CallsOracle(row) == Lower(row["asset_type"]) = "stock"

\* safe_fundamentals whose except branch fills the fields with 0
SafeFundamentalsZeroOnError(row, outcome) ==
    IF ~CallsOracle(row) THEN AllNone
    ELSE IF outcome.raises THEN [c \in FundKeys |-> F(0)]
    ELSE FetchFundamentals(outcome.tinfo)

\* safe_fundamentals(row); outcome = what the yfinance call does: it raises,
\* or it yields the dict outcome.tinfo
SafeFundamentals(row, outcome) ==
    IF ~CallsOracle(row) THEN AllNone
    ELSE IF outcome.raises THEN AllNone
    ELSE FetchFundamentals(outcome.tinfo)

\* the .info dicts yfinance answers with in the model (a key may be missing)
InfoA ==
    [trailingPE |-> F(45), forwardPE |-> F(15), recommendationMean |-> F(2),
     priceToSalesTrailing12Months |-> F(7), profitMargins |-> Q(1, 4),
     revenueGrowth |-> Q(1, 10), earningsQuarterlyGrowth |-> Q(-1, 5),
     beta |-> Q(6, 5), targetMeanPrice |-> F(25)]

InfoB == [forwardPE |-> F(0), recommendationMean |-> F(3), beta |-> F(1)]

InfoC == [trailingPE |-> F(30), forwardPE |-> F(15), recommendationMean |-> Q(3, 2)]

InfoSet == {InfoA, InfoB, InfoC}

-----------------------------------------------------------------------------
(* 5. position scoring / decision engine *)

PlGainTerm(row) == IF Gt(row["pl_pct"], F(80)) THEN -1 ELSE 0

WeightTerm(row) == IF Gt(row["weight_pct"], F(7)) THEN -1 ELSE 0

PlLossTerm(row) == IF Lt(row["pl_pct"], F(-20)) THEN -1 ELSE 0

PeTerm(row) ==
    IF Truthy(RowGet(row, "pe")) /\ Gt(row["pe"], F(40)) THEN -1 ELSE 0

\* the forward_pe condition written (row.get("forward_pe") or 0) < 20
ForwardPeTermNoneAsZero(row) ==
    LET v == IF Truthy(RowGet(row, "forward_pe")) THEN row["forward_pe"] ELSE F(0)
    IN  IF Lt(v, F(20)) THEN 1 ELSE 0

ForwardPeTerm(row) ==
    IF Truthy(RowGet(row, "forward_pe")) /\ Lt(row["forward_pe"], F(20)) THEN 1 ELSE 0

AnalystTerm(row) ==
    IF Truthy(RowGet(row, "analyst_score")) /\ Lt(row["analyst_score"], Q(5, 2)) THEN 1 ELSE 0

\* score_position(row)
ScorePosition(row) ==
    PlGainTerm(row) + WeightTerm(row) + PlLossTerm(row)
        + PeTerm(row) + ForwardPeTerm(row) + AnalystTerm(row)

\* decision_label with score > 2 as its first test
DecisionLabelStrictTop(score) ==
    IF score > 2 THEN "Strong Buy"
    ELSE IF score = 1 THEN "Buy / Hold"
    ELSE IF score = 0 THEN "Review"
    ELSE IF score = -1 THEN "Trim"
    ELSE "Sell"

\* decision_label(score)
DecisionLabel(score) ==
    IF score >= 2 THEN "Strong Buy"
    ELSE IF score = 1 THEN "Buy / Hold"
    ELSE IF score = 0 THEN "Review"
    ELSE IF score = -1 THEN "Trim"
    ELSE "Sell"

\* build_insight's list with a concentration threshold of 10 instead of 7
InsightListConcentration10(row) ==
    (IF Gt(row["pl_pct"], F(80)) THEN <<"Large unrealized gain">> ELSE <<>>)
    \o (IF Lt(row["pl_pct"], F(-20)) THEN <<"Large loss">> ELSE <<>>)
    \o (IF Gt(row["weight_pct"], F(10)) THEN <<"High concentration">> ELSE <<>>)
    \o (IF Truthy(RowGet(row, "pe")) /\ Gt(row["pe"], F(40))
        THEN <<"High valuation">> ELSE <<>>)
    \o (IF Truthy(RowGet(row, "analyst_score")) /\ Lt(row["analyst_score"], F(2))
        THEN <<"Analysts bullish">> ELSE <<>>)

\* the list `insights` of build_insight when it reaches the return
InsightList(row) ==
    (IF Gt(row["pl_pct"], F(80)) THEN <<"Large unrealized gain">> ELSE <<>>)
    \o (IF Lt(row["pl_pct"], F(-20)) THEN <<"Large loss">> ELSE <<>>)
    \o (IF Gt(row["weight_pct"], F(7)) THEN <<"High concentration">> ELSE <<>>)
    \o (IF Truthy(RowGet(row, "pe")) /\ Gt(row["pe"], F(40))
        THEN <<"High valuation">> ELSE <<>>)
    \o (IF Truthy(RowGet(row, "analyst_score")) /\ Lt(row["analyst_score"], F(2))
        THEN <<"Analysts bullish">> ELSE <<>>)

\* build_insight(row)
BuildInsight(row) ==
    IF InsightList(row) # <<>> THEN Join("; ", InsightList(row)) ELSE "Stable"

-----------------------------------------------------------------------------
(* 6. load_and_process_portfolio: the column statements *)

\* lines 201-207: current_price and the core metrics
WithMetrics(d, prices) ==
    LET d1 == SetCol(d, "current_price", prices)
        mv == [k \in 1..NRows(d) |-> Mul(d1["shares"][k], d1["current_price"][k])]
        cv == [k \in 1..NRows(d) |-> Mul(d1["shares"][k], d1["cost_basis"][k])]
        pl == [k \in 1..NRows(d) |-> Sub(mv[k], cv[k])]
        pp == [k \in 1..NRows(d) |-> Mul(Div(pl[k], cv[k]), F(100))]
    IN  SetCol(SetCol(SetCol(SetCol(d1, "market_value", mv), "cost_value", cv),
                      "pl_dollar", pl), "pl_pct", pp)

\* line 209
TotalValue(d) == SumSkipNa(d["market_value"])

\* weight_pct over the running total of the rows so far instead of the total
WithWeightsRunningTotal(d, total) ==
    SetCol(d, "weight_pct",
           [k \in 1..NRows(d) |->
               Mul(Div(d["market_value"][k], SumSkipNa(SubSeq(d["market_value"], 1, k))),
                   F(100))])

\* weight_pct as a fraction: the * 100 is missing
WithWeightsFraction(d, total) ==
    SetCol(d, "weight_pct",
           [k \in 1..NRows(d) |-> Div(d["market_value"][k], total)])

\* lines 211-213
WithWeights(d, total) ==
    SetCol(d, "weight_pct",
           [k \in 1..NRows(d) |-> Mul(Div(d["market_value"][k], total), F(100))])

\* line 217: one column of pd.DataFrame(list of dicts); a column holding a
\* number is float64 and its None become NaN, a column of None only stays None
FrameColumn(dicts, key) ==
    LET raw == [k \in 1..Len(dicts) |-> dicts[k][key]]
    IN  IF \E k \in 1..Len(dicts) : raw[k] # None
        THEN [k \in 1..Len(dicts) |-> IF raw[k] = None THEN NaN ELSE raw[k]]
        ELSE raw

\* lines 217-218: concat of the fundamentals columns
WithFundamentals(d, dicts) ==
    [c \in (DOMAIN d) \cup FundKeys |->
        IF c \in FundKeys THEN FrameColumn(dicts, c) ELSE d[c]]

\* line 221
WithScore(d) == SetCol(d, "score", [k \in 1..NRows(d) |-> ScorePosition(Row(d, k))])

\* line 222
WithDecision(d) ==
    SetCol(d, "decision", [k \in 1..NRows(d) |-> DecisionLabel(d["score"][k])])

\* line 223
WithInsights(d) == SetCol(d, "insights", [k \in 1..NRows(d) |-> BuildInsight(Row(d, k))])

Round2(x) == Round(x, 100)

Round3(x) == Round(x, 1000)

\* lines 226-232
Rounded(d) ==
    [c \in DOMAIN d |->
        IF c = "shares" THEN [k \in 1..NRows(d) |-> Round3(d[c][k])]
        ELSE IF c \in {"current_price", "market_value", "cost_value",
                       "pl_dollar", "pl_pct", "weight_pct"}
        THEN [k \in 1..NRows(d) |-> Round2(d[c][k])]
        ELSE d[c]]

-----------------------------------------------------------------------------
(* portfolio.csv *)

\* the rows a portfolio.csv of the model is made of:
\* (asset_type, ticker, shares, cost_basis)
CsvRows ==
    {<<"Stock", "AAPL", 0, 10>>, <<"Stock", "AAPL", 1, 0>>,
     <<"Stock", "AAPL", 1, 20>>, <<"Stock", "AAPL", 30, 10>>,
     <<"crypto", "BTC", 1, 0>>, <<"crypto", "BTC", 30, 10>>,
     <<"cd", "bankofny", 1, 20>>, <<"cd", "bankofny", 30, 10>>,
     <<"BOND", "T2030", 1, 20>>,
     <<"cash", "USD", 0, 10>>, <<"cash", "USD", 30, 10>>,
     <<"etf", "VOO", 1, 20>>}

Holdings ==
    {[asset_type |-> r[1], ticker |-> r[2], shares |-> F(r[3]), cost_basis |-> F(r[4])] :
        r \in CsvRows}

\* pd.read_csv: the frame of a list of rows
ReadCsv(rows) ==
    [c \in {"asset_type", "ticker", "shares", "cost_basis"} |->
        [k \in 1..Len(rows) |-> rows[k][c]]]

Portfolios == UNION {[1..n -> Holdings] : n \in 1..MaxHoldings}

-----------------------------------------------------------------------------
(* the run of load_and_process_portfolio *)

Init ==
    /\ df \in {ReadCsv(rows) : rows \in Portfolios}
    /\ pc = "fetch_price"
    /\ acc = <<>>
    /\ total_value = None
    /\ fundamentals = <<>>
    /\ history = <<>>
    /\ info = <<>>
    /\ raised = {}
    /\ called = {}
    /\ err = ""
    /\ ret = <<>>

\* the quote yfinance gives for a symbol: the one already seen in this run,
\* or any quote
Quotes(sym) ==
    IF sym = "" THEN {Empty}
    ELSE IF sym \in DOMAIN history THEN {history[sym]}
    ELSE Closes \cup {Empty}

Seen(sym, hist) ==
    IF sym = "" \/ sym \in DOMAIN history THEN history ELSE history @@ (sym :> hist)

\* line 201, one row of the apply: fetch_price returns
ApplyFetchPriceReturns ==
    /\ pc = "fetch_price"
    /\ Len(acc) < NRows(df)
    /\ LET row == Row(df, Len(acc) + 1) IN
       \E hist \in Quotes(QuoteSymbol(row)) :
          /\ FetchPrice(row, hist).ok
          /\ acc' = Append(acc, FetchPrice(row, hist).val)
          /\ history' = Seen(QuoteSymbol(row), hist)
    /\ UNCHANGED <<df, pc, total_value, fundamentals, info, raised, called, err, ret>>

\* line 201, one row of the apply: fetch_price raises and the exception
\* leaves load_and_process_portfolio
ApplyFetchPriceRaises ==
    /\ pc = "fetch_price"
    /\ Len(acc) < NRows(df)
    /\ LET row == Row(df, Len(acc) + 1) IN
       \E hist \in Quotes(QuoteSymbol(row)) :
          /\ ~FetchPrice(row, hist).ok
          /\ err' = FetchPrice(row, hist).val
          /\ history' = Seen(QuoteSymbol(row), hist)
    /\ acc' = <<>>
    /\ pc' = "failed"
    /\ UNCHANGED <<df, total_value, fundamentals, info, raised, called, ret>>

\* lines 201-207, once the apply has priced every row
CoreMetrics ==
    /\ pc = "fetch_price"
    /\ Len(acc) = NRows(df)
    /\ df' = WithMetrics(df, acc)
    /\ acc' = <<>>
    /\ pc' = "weights"
    /\ UNCHANGED <<total_value, fundamentals, history, info, raised, called, err, ret>>

\* lines 209-213
Weights ==
    /\ pc = "weights"
    /\ total_value' = TotalValue(df)
    /\ df' = WithWeights(df, TotalValue(df))
    /\ pc' = "fundamentals"
    /\ UNCHANGED <<acc, fundamentals, history, info, raised, called, err, ret>>

\* the .info yfinance gives for a ticker: the one already seen, or any
Infos(t) == IF t \in DOMAIN info THEN {info[t]} ELSE InfoSet

\* line 216, one row of the apply: not a stock, yfinance is not consulted
ApplySafeFundamentalsNonStock ==
    /\ pc = "fundamentals"
    /\ Len(acc) < NRows(df)
    /\ LET row == Row(df, Len(acc) + 1) IN
          /\ ~CallsOracle(row)
          /\ acc' = Append(acc, SafeFundamentals(row, [raises |-> FALSE, tinfo |-> <<>>]))
    /\ UNCHANGED <<df, pc, total_value, fundamentals, history, info, raised, called, err, ret>>

\* line 216, one row of the apply: fetch_fundamentals returns
ApplySafeFundamentalsFetched ==
    /\ pc = "fundamentals"
    /\ Len(acc) < NRows(df)
    /\ LET row == Row(df, Len(acc) + 1) IN
          /\ CallsOracle(row)
          /\ \E tinfo \in Infos(row["ticker"]) :
                /\ acc' = Append(acc, SafeFundamentals(row, [raises |-> FALSE, tinfo |-> tinfo]))
                /\ info' = IF row["ticker"] \in DOMAIN info THEN info
                           ELSE info @@ (row["ticker"] :> tinfo)
    /\ called' = called \cup {Len(acc) + 1}
    /\ UNCHANGED <<df, pc, total_value, fundamentals, history, raised, err, ret>>

\* line 216, one row of the apply: fetch_fundamentals raises, the bare
\* except catches it
ApplySafeFundamentalsRaised ==
    /\ pc = "fundamentals"
    /\ Len(acc) < NRows(df)
    /\ LET row == Row(df, Len(acc) + 1) IN
          /\ CallsOracle(row)
          /\ acc' = Append(acc, SafeFundamentals(row, [raises |-> TRUE, tinfo |-> <<>>]))
    /\ called' = called \cup {Len(acc) + 1}
    /\ raised' = raised \cup {Len(acc) + 1}
    /\ UNCHANGED <<df, pc, total_value, fundamentals, history, info, err, ret>>

\* lines 216-218, once the apply has visited every row
ConcatFundamentals ==
    /\ pc = "fundamentals"
    /\ Len(acc) = NRows(df)
    /\ fundamentals' = acc
    /\ df' = WithFundamentals(df, acc)
    /\ acc' = <<>>
    /\ pc' = "score"
    /\ UNCHANGED <<total_value, history, info, raised, called, err, ret>>

\* line 221
ScorePositions ==
    /\ pc = "score"
    /\ df' = WithScore(df)
    /\ pc' = "decision"
    /\ UNCHANGED <<acc, total_value, fundamentals, history, info, raised, called, err, ret>>

\* line 222
DecisionLabels ==
    /\ pc = "decision"
    /\ df' = WithDecision(df)
    /\ pc' = "insights"
    /\ UNCHANGED <<acc, total_value, fundamentals, history, info, raised, called, err, ret>>

\* line 223
BuildInsights ==
    /\ pc = "insights"
    /\ df' = WithInsights(df)
    /\ pc' = "round"
    /\ UNCHANGED <<acc, total_value, fundamentals, history, info, raised, called, err, ret>>

\* lines 226-234
RoundAndReturn ==
    /\ pc = "round"
    /\ df' = Rounded(df)
    /\ ret' = Rounded(df)
    /\ pc' = "done"
    /\ UNCHANGED <<acc, total_value, fundamentals, history, info, raised, called, err>>

Next ==
    \/ ApplyFetchPriceReturns
    \/ ApplyFetchPriceRaises
    \/ CoreMetrics
    \/ Weights
    \/ ApplySafeFundamentalsNonStock
    \/ ApplySafeFundamentalsFetched
    \/ ApplySafeFundamentalsRaised
    \/ ConcatFundamentals
    \/ ScorePositions
    \/ DecisionLabels
    \/ BuildInsights
    \/ RoundAndReturn

Spec == Init /\ [][Next]_vars

-----------------------------------------------------------------------------
(* the scoring engine alone: lines 221-234 on one row of any content *)

PlPcts == {NaN, Inf(1), F(-50), F(-20), F(0), F(80), F(85)}

WeightPcts == {NaN, F(3), F(7), F(8)}

Pes == {None, NaN, F(-5), F(0), F(40), F(45)}

ForwardPes == {None, NaN, F(-5), F(0), F(15), F(20)}

AnalystScores == {None, NaN, F(0), Q(3, 2), F(2), Q(11, 5), Q(5, 2), F(3)}

\* a one-row frame as it stands before line 221
ScoringFrame(pl, w, pe, fpe, an) ==
    [c \in {"asset_type", "ticker", "shares", "cost_basis", "current_price",
            "market_value", "cost_value", "pl_dollar", "pl_pct", "weight_pct"}
           \cup FundKeys |->
        CASE c = "asset_type" -> <<"Stock">>
          [] c = "ticker" -> <<"AAPL">>
          [] c = "pl_pct" -> <<pl>>
          [] c = "weight_pct" -> <<w>>
          [] c = "pe" -> <<pe>>
          [] c = "forward_pe" -> <<fpe>>
          [] c = "analyst_score" -> <<an>>
          [] c \in FundKeys -> <<None>>
          [] OTHER -> <<F(1)>>]

InitScore ==
    /\ df \in {ScoringFrame(pl, w, pe, fpe, an) :
                  pl \in PlPcts, w \in WeightPcts, pe \in Pes,
                  fpe \in ForwardPes, an \in AnalystScores}
    /\ pc = "score"
    /\ acc = <<>>
    /\ total_value = F(1)
    /\ fundamentals = <<>>
    /\ history = <<>>
    /\ info = <<>>
    /\ raised = {}
    /\ called = {}
    /\ err = ""
    /\ ret = <<>>

NextScore ==
    \/ ScorePositions
    \/ DecisionLabels
    \/ BuildInsights
    \/ RoundAndReturn

SpecScore == InitScore /\ [][NextScore]_vars

-----------------------------------------------------------------------------
(* the run on portfolios of cash rows: the weights of many holdings *)

\* Largest number of rows of a cash portfolio.
MaxCashRows == 13

CashRow(shares) ==
    [asset_type |-> "cash", ticker |-> "USD", shares |-> F(shares), cost_basis |-> F(1)]

\* a rows of 9990 shares, then b rows of 10120 shares, then c rows of 0 shares
CashPortfolio(a, b, c) ==
    [k \in 1..(a + b + c) |->
        IF k <= a THEN CashRow(9990)
        ELSE IF k <= a + b THEN CashRow(10120)
        ELSE CashRow(0)]

InitCash ==
    /\ df \in {ReadCsv(CashPortfolio(a, b, c)) :
                  a \in 0..MaxCashRows, b \in 0..1, c \in 0..1}
    /\ NRows(df) \in 1..MaxCashRows
    /\ pc = "fetch_price"
    /\ acc = <<>>
    /\ total_value = None
    /\ fundamentals = <<>>
    /\ history = <<>>
    /\ info = <<>>
    /\ raised = {}
    /\ called = {}
    /\ err = ""
    /\ ret = <<>>

NextCash ==
    \/ ApplyFetchPriceReturns
    \/ CoreMetrics
    \/ Weights
    \/ ApplySafeFundamentalsNonStock
    \/ ConcatFundamentals
    \/ ScorePositions
    \/ DecisionLabels
    \/ BuildInsights
    \/ RoundAndReturn

SpecCash == InitCash /\ [][NextCash]_vars

-----------------------------------------------------------------------------
(* the claims *)

B(cond) == IF cond THEN 1 ELSE 0

\* a fundamentals field that is present: it holds a number
Present(x) == IsNum(x)

\* the rows are scored and the metric columns are not yet rounded
Scored == pc \in {"decision", "insights", "round"}

SixConditions(row) ==
    0 - B(Gt(row["pl_pct"], F(80)))
      - B(Gt(row["weight_pct"], F(7)))
      - B(Lt(row["pl_pct"], F(-20)))
      - B(Present(row["pe"]) /\ Gt(row["pe"], F(40)))
      + B(Present(row["forward_pe"]) /\ Lt(row["forward_pe"], F(20)))
      + B(Present(row["analyst_score"]) /\ Lt(row["analyst_score"], Q(5, 2)))

\* C1: the score of every record is the sum of the six contributions, a
\* fundamentals condition counting whenever its field is present, whatever
\* number it holds (0 included).
C1_ScoreIsSumOfSixConditions ==
    Scored => \A k \in 1..NRows(df) : df["score"][k] = SixConditions(Row(df, k))

Labels == {"Strong Buy", "Buy / Hold", "Review", "Trim", "Sell"}

Strength(label) ==
    CASE label = "Sell" -> 1
      [] label = "Trim" -> 2
      [] label = "Review" -> 3
      [] label = "Buy / Hold" -> 4
      [] label = "Strong Buy" -> 5
      [] OTHER -> 0

LabelOf(s) ==
    CASE s >= 2 -> "Strong Buy"
      [] s = 1 -> "Buy / Hold"
      [] s = 0 -> "Review"
      [] s = -1 -> "Trim"
      [] s <= -2 -> "Sell"

Scores == (0 - MaxScore)..MaxScore

\* C2: when line 222 applies decision_label, it maps every integer score to
\* the label of its band and the mapping is monotonic in recommendation
\* strength; every row of a returned frame carries the label of its score,
\* one of the five.
C2_DecisionLabelTotalMonotonic ==
    /\ pc = "decision" =>
          /\ \A s \in Scores : DecisionLabel(s) = LabelOf(s) /\ DecisionLabel(s) \in Labels
          /\ \A s1, s2 \in Scores :
                s1 <= s2 => Strength(DecisionLabel(s1)) <= Strength(DecisionLabel(s2))
    /\ pc = "done" =>
          \A k \in 1..NRows(ret) :
             /\ ret["decision"][k] \in Labels
             /\ ret["decision"][k] = LabelOf(ret["score"][k])

\* a returned frame holding a Sell row and a Strong Buy row
C2_Witness ==
    /\ pc = "done"
    /\ \E k, j \in 1..NRows(ret) :
          ret["decision"][k] = "Sell" /\ ret["decision"][j] = "Strong Buy"

PhrasesOf(row) ==
    (IF Gt(row["pl_pct"], F(80)) THEN <<"Large unrealized gain">> ELSE <<>>)
    \o (IF Lt(row["pl_pct"], F(-20)) THEN <<"Large loss">> ELSE <<>>)
    \o (IF Gt(row["weight_pct"], F(7)) THEN <<"High concentration">> ELSE <<>>)
    \o (IF Present(row["pe"]) /\ Gt(row["pe"], F(40)) THEN <<"High valuation">> ELSE <<>>)
    \o (IF Present(row["analyst_score"]) /\ Lt(row["analyst_score"], F(2))
        THEN <<"Analysts bullish">> ELSE <<>>)

\* C3: the insight of every record is the phrases whose condition holds, in
\* the fixed order, joined with "; ", and "Stable" exactly when none holds;
\* "Analysts bullish" counts whenever analyst_score is present and below 2.
C3_InsightIsPhrasesInOrder ==
    pc = "round" =>
       \A k \in 1..NRows(df) :
          LET row == Row(df, k) IN
             /\ PhrasesOf(row) # <<>> => df["insights"][k] = Join("; ", PhrasesOf(row))
             /\ PhrasesOf(row) = <<>> <=> df["insights"][k] = "Stable"

NegativePhrases ==
    {"Large unrealized gain", "Large loss", "High concentration", "High valuation"}

AllPhrases ==
    <<"Large unrealized gain", "Large loss", "High concentration", "High valuation",
      "Analysts bullish">>

\* the phrases of AllPhrases whose index is in S, in order
Pick(S) == SelectSeq(AllPhrases, LAMBDA ph : \E k \in S : AllPhrases[k] = ph)

\* the insight string names the phrase
Names(insight, phrase) ==
    \E S \in SUBSET (1..Len(AllPhrases)) :
       /\ \E k \in S : AllPhrases[k] = phrase
       /\ insight = Join("; ", Pick(S))

\* C10: the score lies in -3..2, a "Stable" insight comes with a score >= 0,
\* and a Trim or Sell decision comes with an insight naming a negative phrase.
C10_ScoreDecisionInsightConsistent ==
    pc \in {"round", "done"} =>
       \A k \in 1..NRows(df) :
          /\ df["score"][k] \in -3..2
          /\ df["insights"][k] = "Stable" => df["score"][k] >= 0
          /\ df["decision"][k] \in {"Trim", "Sell"} =>
                \E ph \in NegativePhrases : Names(df["insights"][k], ph)

\* a returned row with the lowest score, and one with the highest
C10_Witness ==
    /\ pc = "done"
    /\ df["score"][1] = -3
    /\ df["decision"][1] = "Sell"
    /\ Names(df["insights"][1], "High valuation")

PositionOnly(row) ==
    0 - B(Gt(row["pl_pct"], F(80)))
      - B(Gt(row["weight_pct"], F(7)))
      - B(Lt(row["pl_pct"], F(-20)))

\* C4: an absent fundamentals field contributes nothing to the score (it is
\* not taken for 0); a row that is not a stock, or whose fundamentals fetch
\* raised, has the three fields absent and scores on pl_pct and weight_pct only.
C4_AbsentFundamentalsNeverContribute ==
    Scored =>
       \A k \in 1..NRows(df) :
          LET row == Row(df, k) IN
             /\ IsNa(row["pe"]) =>
                   df["score"][k] = PositionOnly(row) + ForwardPeTerm(row) + AnalystTerm(row)
             /\ IsNa(row["forward_pe"]) =>
                   df["score"][k] = PositionOnly(row) + PeTerm(row) + AnalystTerm(row)
             /\ IsNa(row["analyst_score"]) =>
                   df["score"][k] = PositionOnly(row) + PeTerm(row) + ForwardPeTerm(row)
             /\ (~CallsOracle(row) \/ k \in raised) =>
                   /\ IsNa(row["pe"]) /\ IsNa(row["forward_pe"]) /\ IsNa(row["analyst_score"])
                   /\ df["score"][k] = PositionOnly(row)

\* a scored frame with a stock row whose fetch raised and a non-stock row
\* that a position condition marks down
C4_Witness ==
    /\ Scored
    /\ \E k \in raised : df["forward_pe"][k] = None
    /\ \E k \in 1..NRows(df) : ~CallsOracle(Row(df, k)) /\ df["score"][k] < 0

\* C5: a holding with cost_value = 0 has an absent pl_pct, never an infinity
\* or a number, and its pl_pct triggers no scoring condition.
C5_ZeroCostPlPctAbsent ==
    "pl_pct" \in DOMAIN df =>
       \A k \in 1..NRows(df) :
          df["cost_value"][k] = F(0) =>
             /\ IsNa(df["pl_pct"][k])
             /\ PlGainTerm(Row(df, k)) = 0
             /\ PlLossTerm(Row(df, k)) = 0

AbsF(x) == IF x.num < 0 THEN Mul(F(-1), x) ELSE x

\* |sum of the column - 100| <= tol
SumsTo100Within(col, tol) == ~Gt(AbsF(Sub(SumSkipNa(col), F(100))), tol)

\* C6 as stated: the rounded weight_pct of every returned frame sum to 100
\* within 0.05.
C6_WeightsSumTo100 ==
    pc = "done" => SumsTo100Within(ret["weight_pct"], Q(5, 100))

\* C6 amended: with a positive total market value the rounded weight_pct sum
\* to 100 within 0.005 per holding; with a total of 0 every weight_pct is NaN.
C6_WeightsSumWithinHalfCentPerRow ==
    pc = "done" =>
       IF Gt(total_value, F(0))
       THEN SumsTo100Within(ret["weight_pct"], Mul(F(NRows(ret)), Q(5, 1000)))
       ELSE \A k \in 1..NRows(ret) : ret["weight_pct"][k] = NaN

\* a returned frame of positive total whose weights miss 100 by more than 0.05
C6_Witness ==
    /\ pc = "done"
    /\ Gt(total_value, F(0))
    /\ ~SumsTo100Within(ret["weight_pct"], Q(5, 100))

CsvCols == {"asset_type", "ticker", "shares", "cost_basis"}

\* price resolution fails for the row: no quote for its symbol, or an asset
\* type fetch_price does not know
PriceFails(row) ==
    IF QuoteSymbol(row) # ""
    THEN QuoteSymbol(row) \in DOMAIN history /\ history[QuoteSymbol(row)] = Empty
    ELSE Lower(row["asset_type"]) \notin {"cd", "bond", "cash"}

\* the error message names the ticker
NamesTicker(e, t) ==
    e \in {"No price data returned for STOCK " \o t, "No price data returned for CRYPTO " \o t}

\* C7: a run in which the price of a holding does not resolve ends in a
\* failure (naming the ticker of a stock or crypto holding) and computes and
\* returns nothing: no metric, no fundamentals lookup, no score, no frame.
C7_PriceFailureFailsWholeRun ==
    /\ (\E k \in 1..NRows(df) : PriceFails(Row(df, k))) => pc \in {"fetch_price", "failed"}
    /\ (\E sym \in DOMAIN history : history[sym] = Empty) => pc = "failed"
    /\ pc = "failed" =>
          /\ \E k \in 1..NRows(df) :
                /\ PriceFails(Row(df, k))
                /\ QuoteSymbol(Row(df, k)) # "" => NamesTicker(err, df["ticker"][k])
                /\ QuoteSymbol(Row(df, k)) = "" => err = "Unknown asset type: " \o Lower(df["asset_type"][k])
          /\ DOMAIN df = CsvCols
          /\ total_value = None
          /\ fundamentals = <<>>
          /\ called = {}
          /\ ret = <<>>

\* a failed run in which the price of an earlier holding had resolved
C7_Witness ==
    /\ pc = "failed"
    /\ \E s1, s2 \in DOMAIN history : history[s1] = Empty /\ history[s2] # Empty
    /\ NamesTicker(err, "BTC")

\* the frame d itself; the comparison makes TLC evaluate the columns of d
\* once instead of at every use
Computed(d) == IF d = d THEN d ELSE d

\* the frame just before the rounding of lines 226-232, from the csv frame,
\* the prices and the fundamentals dicts
Unrounded(csv, prices, dicts) ==
    LET d1 == Computed(WithMetrics(csv, prices))
        d2 == Computed(WithWeights(d1, TotalValue(d1)))
        d3 == Computed(WithFundamentals(d2, dicts))
        d4 == Computed(WithScore(d3))
        d5 == Computed(WithDecision(d4))
    IN  Computed(WithInsights(d5))

CsvOf(d) == [c \in CsvCols |-> d[c]]

\* two values of a fundamentals column agree: both absent, or the same number
SameFund(a, b) == (IsNa(a) /\ IsNa(b)) \/ a = b

\* C8: a raising fundamentals fetch costs only its own row: the run goes on to
\* return one record per holding, the row of the failed fetch has its nine
\* fundamentals absent, every other row has the fundamentals, score, decision
\* and insight of the run in which no fetch raises (whatever the failed
\* fetches would have returned), and only stock rows reach the oracle.
C8_FundamentalsFailureIsolated ==
    /\ raised # {} => pc # "failed"
    /\ \A k \in called : CallsOracle(Row(df, k))
    /\ pc = "done" =>
          /\ NRows(ret) = Len(fundamentals)
          /\ {"score", "decision", "insights"} \cup FundKeys \subseteq DOMAIN ret
          /\ \A k \in raised : \A c \in FundKeys : IsNa(ret[c][k])
    /\ pc = "round" =>
          \A alt \in [raised -> InfoSet] :
             LET dicts == [k \in 1..NRows(df) |->
                              IF k \in raised THEN FetchFundamentals(alt[k])
                              ELSE fundamentals[k]]
                 ref == Unrounded(CsvOf(df), df["current_price"], dicts)
             IN  \A k \in (1..NRows(df)) \ raised :
                    /\ \A c \in FundKeys : SameFund(ref[c][k], df[c][k])
                    /\ \A c \in {"score", "decision", "insights"} : ref[c][k] = df[c][k]

\* a completed run with a row whose fetch raised beside a stock row whose
\* fetch returned
C8_Witness ==
    /\ pc = "done"
    /\ raised # {}
    /\ called \ raised # {}
    /\ \E k \in called \ raised : Present(ret["pe"][k])

\* the price the oracle of this run gives the row
PriceOf(row) ==
    FetchPrice(row, IF QuoteSymbol(row) = "" THEN Empty ELSE history[QuoteSymbol(row)]).val

\* C9: every permutation of the holding list, run against the same quotes and
\* the same fundamentals per holding, gives each holding the weight_pct,
\* score, decision and insight it has in this run; the total market value is
\* not computed before every price is resolved and is the sum over all rows.
C9_ScoringOrderIndependent ==
    /\ pc = "fetch_price" => total_value = None /\ "weight_pct" \notin DOMAIN df
    /\ total_value # None =>
          /\ Len(df["market_value"]) = NRows(df)
          /\ total_value = SumSkipNa([k \in 1..NRows(df) |->
                                         Mul(df["shares"][k], PriceOf(Row(df, k)))])
    /\ pc = "round" =>
          \A perm \in Permutations(1..NRows(df)) :
             LET csv == [c \in CsvCols |-> [j \in 1..NRows(df) |-> df[c][perm[j]]]]
                 prices == [j \in 1..NRows(df) |-> PriceOf(Row(csv, j))]
                 dicts == [j \in 1..NRows(df) |-> fundamentals[perm[j]]]
                 ref == Unrounded(csv, prices, dicts)
             IN  \A j \in 1..NRows(df) :
                    \A c \in {"weight_pct", "score", "decision", "insights"} :
                       ref[c][j] = df[c][perm[j]]

\* a completed scoring of two holdings of different weight and score
C9_Witness ==
    /\ pc = "round"
    /\ NRows(df) >= 2
    /\ df["weight_pct"][1] # df["weight_pct"][2]
    /\ df["score"][1] # df["score"][2]
    /\ Gt(df["weight_pct"][1], F(0))
    /\ Gt(df["weight_pct"][2], F(0))

=============================================================================
